---- MODULE Spec2Model ----
(***************************************************************************)
(* Model of movie-booking/app.py: the relational store (movie, showtime,   *)
(* seat, booking, user tables), the per-client login session, and the      *)
(* route handlers that read and write them.                                *)
(*                                                                         *)
(* Text values (seat labels, emails, passwords, the CSV of a booking) are  *)
(* sequences of one-character strings, so that strip(), lower() and        *)
(* ','.join() are computed character by character.  Prices are the float   *)
(* values of the source, all of them whole numbers, kept as integers.      *)
(***************************************************************************)
EXTENDS Integers, Sequences, FiniteSets, TLC

VARIABLES db, session, req, response

vars == <<db, session, req, response>>

(***************************************************************************)
(* Bounds of the model (not program constants).                            *)
(***************************************************************************)
\* Longest list of seats one booking form submits.
MaxSelected == 2

\* Browser sessions (cookie jars) issuing requests.
Clients == {1, 2}

\* The browser session whose requests the run-to-completion specification
\* serves; users take turns at it by logging out and in.
SeqClients == {1}

(***************************************************************************)
(* Text helpers: str.strip(), str.lower(), str.join(), str(int).           *)
(***************************************************************************)
UpperCase == <<"A", "B", "C", "D", "E", "F", "G", "H", "I", "J", "K", "L", "M",
               "N", "O", "P", "Q", "R", "S", "T", "U", "V", "W", "X", "Y", "Z">>

LowerCase == <<"a", "b", "c", "d", "e", "f", "g", "h", "i", "j", "k", "l", "m",
               "n", "o", "p", "q", "r", "s", "t", "u", "v", "w", "x", "y", "z">>

Digits == <<"0", "1", "2", "3", "4", "5", "6", "7", "8", "9">>

SetMin(S) == CHOOSE x \in S : \A y \in S : x <= y

SetMax(S) == CHOOSE x \in S : \A y \in S : x >= y

\* The lower-case letter of each upper-case one.
LowerOf == [ch \in {UpperCase[i] : i \in 1..Len(UpperCase)} |->
               LowerCase[CHOOSE i \in 1..Len(UpperCase) : UpperCase[i] = ch]]

LowerChar(ch) == IF ch \in DOMAIN LowerOf THEN LowerOf[ch] ELSE ch

Lower(s) == [i \in 1..Len(s) |-> LowerChar(s[i])]

IsSpace(ch) == ch \in {" ", "\t", "\n", "\r"}

Strip(s) ==
    LET keep == {i \in 1..Len(s) : ~IsSpace(s[i])}
    IN  IF keep = {} THEN <<>> ELSE SubSeq(s, SetMin(keep), SetMax(keep))

RECURSIVE DecStr(_)
DecStr(n) ==
    IF n < 10 THEN <<Digits[n + 1]>>
    ELSE DecStr(n \div 10) \o <<Digits[(n % 10) + 1]>>

RECURSIVE Join(_, _)
Join(sep, list) ==
    IF list = <<>> THEN <<>>
    ELSE IF Len(list) = 1 THEN list[1]
    ELSE list[1] \o sep \o Join(sep, Tail(list))

(***************************************************************************)
(* Password hashing (werkzeug): a hash verifies exactly the password it    *)
(* was generated from.                                                     *)
(***************************************************************************)
GeneratePasswordHash(password) == <<"hash-of">> \o password

CheckPasswordHash(pwhash, password) == pwhash = GeneratePasswordHash(password)

(***************************************************************************)
(* Seeding.                                                                *)
(***************************************************************************)
\* create_seats_for_showtime(showtime, rows=5, cols=8)
Rows == 5

Cols == 8

\* for i in range(3): three showtimes per movie
ShowtimesPerMovie == 3

\* ticket_price = 10.0 + 2.0 * i
BasePrice == 10

PriceStep == 2

\* start_time = base_time + timedelta(hours=3 * i), base_time two hours ahead;
\* kept as hours after the (truncated) seeding hour.
FirstShowHours == 2

ShowSpacingHours == 3

DemoMovies ==
    << [title |-> "Interstellar", duration_minutes |-> 169],
       [title |-> "Inception", duration_minutes |-> 148],
       [title |-> "The Dark Knight", duration_minutes |-> 152] >>

DemoEmail == <<"d", "e", "m", "o", "@", "e", "x", "a", "m", "p", "l", "e",
               ".", "c", "o", "m">>

DemoName == <<"D", "e", "m", "o", " ", "U", "s", "e", "r">>

DemoPassword == <<"p", "a", "s", "s", "w", "o", "r", "d">>

EmptyDb == [movie |-> <<>>, showtime |-> <<>>, seat |-> <<>>,
            booking |-> <<>>, user |-> <<>>]

\* f"{row_label}{c}" with row_label = chr(ord('A') + r)
SeatLabel(r, c) == <<UpperCase[r + 1]>> \o DecStr(c)

CreateSeatsForShowtime(seatTable, showtime_id, rows, cols) ==
    seatTable \o
    [k \in 1..(rows * cols) |->
        [id |-> Len(seatTable) + k,
         showtime_id |-> showtime_id,
         seat_label |-> SeatLabel((k - 1) \div cols, ((k - 1) % cols) + 1),
         is_booked |-> FALSE]]

\* One turn of "for i in range(3)": the showtime and its seat grid.
AddShowtime(d, movie_id, i) ==
    LET sid == Len(d.showtime) + 1
    IN  [d EXCEPT
            !.showtime = Append(@, [id |-> sid,
                                    movie_id |-> movie_id,
                                    start_time |-> FirstShowHours + ShowSpacingHours * i,
                                    ticket_price |-> BasePrice + PriceStep * i]),
            !.seat = CreateSeatsForShowtime(@, sid, Rows, Cols)]

RECURSIVE AddShowtimes(_, _, _)
AddShowtimes(d, movie_id, i) ==
    IF i >= ShowtimesPerMovie THEN d
    ELSE AddShowtimes(AddShowtime(d, movie_id, i), movie_id, i + 1)

\* One turn of "for movie_data in demo_movies".
AddMovie(d, movie_data) ==
    LET mid == Len(d.movie) + 1
        withMovie == [d EXCEPT !.movie = Append(@, [id |-> mid,
                                  title |-> movie_data.title,
                                  duration_minutes |-> movie_data.duration_minutes])]
    IN  AddShowtimes(withMovie, mid, 0)

RECURSIVE AddMovies(_, _)
AddMovies(d, k) ==
    IF k > Len(DemoMovies) THEN d
    ELSE AddMovies(AddMovie(d, DemoMovies[k]), k + 1)

UserByEmail(d, email) == {i \in 1..Len(d.user) : d.user[i].email = email}

AddDemoUser(d) ==
    IF UserByEmail(d, DemoEmail) # {} THEN d
    ELSE [d EXCEPT !.user = Append(@, [id |-> Len(d.user) + 1,
                                       name |-> DemoName,
                                       email |-> DemoEmail,
                                       password_hash |-> GeneratePasswordHash(DemoPassword),
                                       is_admin |-> TRUE])]

\* Variant: the "movie table is not empty" guard is missing.
SeedDemoDataUnguarded(d) == AddDemoUser(AddMovies(d, 1))

SeedDemoData(d) ==
    IF Len(d.movie) > 0 THEN d
    ELSE AddDemoUser(AddMovies(d, 1))

(***************************************************************************)
(* Inputs the requests are drawn from.                                     *)
(***************************************************************************)
LabelInputs == { <<"A", "1">>, <<"A", "2">>, <<"Z", "9">> }

Selections == UNION { [1..n -> LabelInputs] : n \in 0..MaxSelected }

\* Showtime 1 exists after seeding; 99 never does.
ShowtimeInputs == {1, 99}

\* (showtime id, seats) of a /book request: every selection on showtime 1,
\* one on the missing showtime.
BookInputs ==
    { <<1, sel>> : sel \in Selections } \cup { <<99, <<<<"A", "1">>>>>> }

MovieInputs == {1, 99}

BobName == <<" ", "B", "o", " ">>

BobPassword == <<"p", "w">>

\* Two spellings of one new address, and one of the demo account's.
EmailInputs == { <<"b", "@", "X">>,
                 <<" ", "B", "@", "x", " ">>,
                 <<"D", "E", "M", "O", "@", "e", "x", "a", "m", "p", "l", "e",
                   ".", "c", "o", "m">> }

\* (method, email, password) of a /login request.
LoginInputs ==
    { <<"GET", <<>>, <<>>>> }
    \cup { <<"POST", e, p>> : e \in EmailInputs, p \in {BobPassword, DemoPassword} }

\* (method, name, email, password) of a /register request: every address
\* with all fields given, and each field in turn left blank.
RegisterInputs ==
    { <<"GET", <<>>, <<>>, <<>>>> }
    \cup { <<"POST", BobName, e, BobPassword>> : e \in EmailInputs }
    \cup { <<"POST", <<" ">>, <<"b", "@", "X">>, BobPassword>>,
           <<"POST", BobName, <<" ">>, BobPassword>>,
           <<"POST", BobName, <<"b", "@", "X">>, <<>>>> }

(***************************************************************************)
(* State after construction: create_all() and seed_demo_data() have run,   *)
(* nobody is logged in, no request is in flight.                           *)
(***************************************************************************)
IdleReq == [pc |-> "idle", user_id |-> 0, showtime_id |-> 0, ticket_price |-> 0,
            selected_seats |-> <<>>, seats |-> <<>>, marked |-> {},
            booking |-> <<>>]

\* What the server answered last: the route, the outcome, and for /book the
\* form (showtime id, seats) the answer is to.
Reply(op, status) == [op |-> op, status |-> status, form |-> <<>>]

BookReply(status, showtime_id, selected_seats) ==
    [op |-> "book", status |-> status, form |-> <<showtime_id, selected_seats>>]

Init ==
    /\ db = SeedDemoData(EmptyDb)
    /\ session = [c \in Clients |-> 0]
    /\ req = [c \in Clients |-> IdleReq]
    /\ response = Reply("startup", "seeded")

(***************************************************************************)
(* flask-login: load_user and login_required.  session[c] is the user id   *)
(* kept in client c's cookie, 0 when there is none.                        *)
(***************************************************************************)
LoadUser(d, user_id) == {i \in 1..Len(d.user) : d.user[i].id = user_id}

\* Variant: the route is not protected by login_required.
IsAuthenticatedAnyone(d, user_id) == TRUE

IsAuthenticated(d, user_id) == user_id # 0 /\ LoadUser(d, user_id) # {}

(***************************************************************************)
(* book_tickets, in the steps a crash or another request can separate.     *)
(***************************************************************************)
ShowtimeById(d, showtime_id) ==
    {i \in 1..Len(d.showtime) : d.showtime[i].id = showtime_id}

\* Seat.query.filter(Seat.showtime_id == showtime.id,
\*                   Seat.seat_label.in_(selected_seats)).all()
QuerySeats(d, showtime_id, selected_seats) ==
    SelectSeq(d.seat,
              LAMBDA s : /\ s.showtime_id = showtime_id
                         /\ \E j \in 1..Len(selected_seats) :
                                selected_seats[j] = s.seat_label)

\* Variant: only the booked flags are tested, not the count.
UnavailableIgnoresCount(seats, selected_seats) ==
    \E i \in 1..Len(seats) : seats[i].is_booked

\* Variant: only the count is tested, not the booked flags.
UnavailableIgnoresBooked(seats, selected_seats) ==
    Len(seats) # Len(selected_seats)

\* Variant: the count is compared with the number of distinct labels.
UnavailableCountsDistinct(seats, selected_seats) ==
    \/ Len(seats) # Cardinality({selected_seats[j] : j \in 1..Len(selected_seats)})
    \/ \E i \in 1..Len(seats) : seats[i].is_booked

\* len(seats) != len(selected_seats) or any(s.is_booked for s in seats)
Unavailable(seats, selected_seats) ==
    \/ Len(seats) # Len(selected_seats)
    \/ \E i \in 1..Len(seats) : seats[i].is_booked

\* Lines 158-168: the guards, then the availability query.
BookQuery(c, showtime_id, selected_seats) ==
    LET seats == QuerySeats(db, showtime_id, selected_seats)
    IN  /\ req[c].pc = "idle"
        /\ IF ~IsAuthenticated(db, session[c])
           THEN /\ response' = BookReply("login_redirect", showtime_id, selected_seats)
                /\ UNCHANGED req
           ELSE IF ShowtimeById(db, showtime_id) = {}
           THEN /\ response' = BookReply("not_found", showtime_id, selected_seats)
                /\ UNCHANGED req
           ELSE IF selected_seats = <<>>
           THEN /\ response' = BookReply("warning_no_seats", showtime_id, selected_seats)
                /\ UNCHANGED req
           ELSE IF Unavailable(seats, selected_seats)
           THEN /\ response' = BookReply("danger_unavailable", showtime_id, selected_seats)
                /\ UNCHANGED req
           ELSE /\ UNCHANGED response
                /\ req' = [req EXCEPT ![c] =
                             [pc |-> "checked",
                              user_id |-> session[c],
                              showtime_id |-> showtime_id,
                              ticket_price |->
                                  db.showtime[CHOOSE i \in ShowtimeById(db, showtime_id) : TRUE].ticket_price,
                              selected_seats |-> selected_seats,
                              seats |-> [i \in 1..Len(seats) |-> seats[i].id],
                              marked |-> {},
                              booking |-> <<>>]]
        /\ UNCHANGED <<db, session>>

\* Lines 171-172: seat.is_booked = True on the loaded seats, in the ORM session.
MarkSeats(r) ==
    [r EXCEPT !.pc = "marked", !.marked = {r.seats[i] : i \in 1..Len(r.seats)}]

\* Variant: the price of one ticket is recorded, whatever the seat count.
NewBookingOnePrice(r) ==
    [user_id |-> r.user_id,
     showtime_id |-> r.showtime_id,
     seat_labels |-> Join(<<",">>, r.selected_seats),
     total_price |-> r.ticket_price]

\* Lines 173-175: the booking object, added to the ORM session.
NewBooking(r) ==
    [user_id |-> r.user_id,
     showtime_id |-> r.showtime_id,
     seat_labels |-> Join(<<",">>, r.selected_seats),
     total_price |-> r.ticket_price * Len(r.selected_seats)]

\* Variant: the booking is never added to the session.
AddBookingForgotten(r) == [r EXCEPT !.pc = "added"]

AddBooking(r) == [r EXCEPT !.pc = "added", !.booking = <<NewBooking(r)>>]

\* Variant: the flags of the whole table are rewritten from the selection.
FlagSeatsOverwrite(seatTable, marked) ==
    [i \in 1..Len(seatTable) |->
        [seatTable[i] EXCEPT !.is_booked = (seatTable[i].id \in marked)]]

\* The UPDATE of line 176's commit: every seat the session marked is written
\* as booked, by primary key.
FlagSeats(seatTable, marked) ==
    [i \in 1..Len(seatTable) |->
        IF seatTable[i].id \in marked
        THEN [seatTable[i] EXCEPT !.is_booked = TRUE]
        ELSE seatTable[i]]

\* The INSERT of line 176's commit: the pending booking gets the next id.
InsertBookings(bookingTable, pending) ==
    bookingTable \o
    [k \in 1..Len(pending) |->
        [id |-> Len(bookingTable) + k,
         user_id |-> pending[k].user_id,
         showtime_id |-> pending[k].showtime_id,
         seat_labels |-> pending[k].seat_labels,
         total_price |-> pending[k].total_price]]

\* Variant: the commit re-reads the seats and writes nothing when one of them
\* has been booked since the query.
CommitSessionRechecked(d, r) ==
    IF \E i \in 1..Len(d.seat) : d.seat[i].id \in r.marked /\ d.seat[i].is_booked
    THEN d
    ELSE [d EXCEPT !.seat = FlagSeats(@, r.marked),
                   !.booking = InsertBookings(@, r.booking)]

\* Line 176: db.session.commit() writes the session's pending changes in one
\* transaction, whatever the store holds by then.
CommitSession(d, r) ==
    [d EXCEPT !.seat = FlagSeats(@, r.marked),
              !.booking = InsertBookings(@, r.booking)]

BookMarkSeats(c) ==
    /\ req[c].pc = "checked"
    /\ req' = [req EXCEPT ![c] = MarkSeats(req[c])]
    /\ UNCHANGED <<db, session, response>>

BookAddBooking(c) ==
    /\ req[c].pc = "marked"
    /\ req' = [req EXCEPT ![c] = AddBooking(req[c])]
    /\ UNCHANGED <<db, session, response>>

BookCommit(c) ==
    /\ req[c].pc = "added"
    /\ req' = [req EXCEPT ![c] = IdleReq]
    /\ response' = BookReply("success", req[c].showtime_id, req[c].selected_seats)
    /\ db' = CommitSession(db, req[c])
    /\ UNCHANGED session

\* The process dies inside book_tickets before line 176 returns: the ORM
\* session and whatever it held are gone, the store keeps what was committed.
Crash(c) ==
    /\ req[c].pc \in {"checked", "marked", "added"}
    /\ req' = [req EXCEPT ![c] = IdleReq]
    /\ response' = BookReply("crash", req[c].showtime_id, req[c].selected_seats)
    /\ UNCHANGED <<db, session>>

(***************************************************************************)
(* The read-only pages.                                                    *)
(***************************************************************************)
Home(c) ==
    /\ req[c].pc = "idle"
    /\ response' = Reply("home", "ok")
    /\ UNCHANGED <<db, session, req>>

MovieDetail(c, movie_id) ==
    /\ req[c].pc = "idle"
    /\ response' = Reply("movie_detail",
                         IF \E i \in 1..Len(db.movie) : db.movie[i].id = movie_id
                         THEN "ok" ELSE "not_found")
    /\ UNCHANGED <<db, session, req>>

\* The seat map it renders (seats ordered by label, grouped by row letter)
\* is not kept: no state depends on it.
ShowtimeDetail(c, showtime_id) ==
    /\ req[c].pc = "idle"
    /\ response' = Reply("showtime_detail",
                         IF ShowtimeById(db, showtime_id) # {} THEN "ok" ELSE "not_found")
    /\ UNCHANGED <<db, session, req>>

MyBookings(c) ==
    /\ req[c].pc = "idle"
    /\ response' = Reply("my_bookings",
                         IF IsAuthenticated(db, session[c]) THEN "ok" ELSE "login_redirect")
    /\ UNCHANGED <<db, session, req>>

(***************************************************************************)
(* Accounts.                                                               *)
(***************************************************************************)
\* Variant: the address is stripped but not lower-cased.
NormalizeEmailNoLower(raw) == Strip(raw)

\* request.form.get('email', '').strip().lower()
NormalizeEmail(raw) == Lower(Strip(raw))

\* .first() of the users with that email
FirstUser(d, email) == d.user[SetMin(UserByEmail(d, email))]

Login(c, method, email_raw, password) ==
    LET email == NormalizeEmail(email_raw)
    IN  /\ req[c].pc = "idle"
        /\ IF method = "GET"
           THEN /\ response' = Reply("login", "form")
                /\ UNCHANGED session
           ELSE IF /\ UserByEmail(db, email) # {}
                   /\ CheckPasswordHash(FirstUser(db, email).password_hash, password)
           THEN /\ session' = [session EXCEPT ![c] = FirstUser(db, email).id]
                /\ response' = Reply("login", "success")
           ELSE /\ response' = Reply("login", "danger_invalid")
                /\ UNCHANGED session
        /\ UNCHANGED <<db, req>>

Register(c, method, name_raw, email_raw, password) ==
    LET name == Strip(name_raw)
        email == NormalizeEmail(email_raw)
    IN  /\ req[c].pc = "idle"
        /\ UNCHANGED <<session, req>>
        /\ IF method = "GET"
           THEN /\ response' = Reply("register", "form")
                /\ UNCHANGED db
           ELSE IF name = <<>> \/ email = <<>> \/ password = <<>>
           THEN /\ response' = Reply("register", "warning_required")
                /\ UNCHANGED db
           ELSE IF UserByEmail(db, email) # {}
           THEN /\ response' = Reply("register", "warning_in_use")
                /\ UNCHANGED db
           ELSE /\ db' = [db EXCEPT !.user =
                             Append(@, [id |-> Len(db.user) + 1,
                                        name |-> name,
                                        email |-> email,
                                        password_hash |-> GeneratePasswordHash(password),
                                        is_admin |-> FALSE])]
                /\ response' = Reply("register", "success")

Logout(c) ==
    /\ req[c].pc = "idle"
    /\ IF IsAuthenticated(db, session[c])
       THEN /\ session' = [session EXCEPT ![c] = 0]
            /\ response' = Reply("logout", "success")
       ELSE /\ response' = Reply("logout", "login_redirect")
            /\ UNCHANGED session
    /\ UNCHANGED <<db, req>>

(***************************************************************************)
(* Process start (__main__) and the init-db command.                       *)
(***************************************************************************)
\* db.create_all() keeps existing tables; seed_demo_data() follows.
Startup ==
    /\ response' = Reply("startup", "seeded")
    /\ db' = SeedDemoData(db)
    /\ UNCHANGED <<session, req>>

\* db.drop_all(); db.create_all(); seed_demo_data().  Cookies held by the
\* clients survive it.
InitDb ==
    /\ response' = Reply("init-db", "initialized")
    /\ db' = SeedDemoData(EmptyDb)
    /\ UNCHANGED <<session, req>>

(***************************************************************************)
(* Specifications.                                                         *)
(*   Spec:     requests run to completion one at a time; a booking request *)
(*             may crash at any of its steps.                              *)
(*   ConcSpec: each client's request is served by its own thread, so the   *)
(*             steps of two booking requests interleave.                   *)
(***************************************************************************)
Quiet == \A c \in Clients : req[c].pc = "idle"

Pages(c) ==
    \/ Home(c)
    \/ \E m \in MovieInputs : MovieDetail(c, m)
    \/ \E s \in ShowtimeInputs : ShowtimeDetail(c, s)
    \/ MyBookings(c)

Accounts(c) ==
    \/ \E i \in LoginInputs : Login(c, i[1], i[2], i[3])
    \/ \E i \in RegisterInputs : Register(c, i[1], i[2], i[3], i[4])
    \/ Logout(c)

BookStart(c) == \E i \in BookInputs : BookQuery(c, i[1], i[2])

BookStep(c) ==
    \/ BookMarkSeats(c)
    \/ BookAddBooking(c)
    \/ BookCommit(c)
    \/ Crash(c)

Next ==
    \/ Quiet /\ \E c \in SeqClients : Pages(c)
    \/ Quiet /\ \E c \in SeqClients : Accounts(c)
    \/ Quiet /\ \E c \in SeqClients : BookStart(c)
    \/ \E c \in SeqClients : BookStep(c)
    \/ Quiet /\ Startup
    \/ Quiet /\ InitDb

Spec == Init /\ [][Next]_vars

\* Forms of the interleaved requests: overlapping and disjoint selections.
ConcBookInputs ==
    { <<1, <<<<"A", "1">>>>>>,
      <<1, <<<<"A", "2">>>>>>,
      <<1, <<<<"A", "1">>, <<"A", "2">>>>>>,
      <<1, <<<<"Z", "9">>>>>> }

ConcNext ==
    \/ \E c \in Clients : Login(c, "POST", DemoEmail, DemoPassword)
    \/ \E c \in Clients : Logout(c)
    \/ \E c \in Clients, i \in ConcBookInputs : BookQuery(c, i[1], i[2])
    \/ \E c \in Clients : BookStep(c)

ConcSpec == Init /\ [][ConcNext]_vars

(***************************************************************************)
(* Vocabulary of the properties.                                           *)
(***************************************************************************)
Range(seq) == {seq[i] : i \in 1..Len(seq)}

\* str.split(','): the reading of a booking's seat_labels column.
RECURSIVE SplitCsv(_)
SplitCsv(text) ==
    LET commas == {i \in 1..Len(text) : text[i] = ","}
    IN  IF commas = {} THEN <<text>>
        ELSE <<SubSeq(text, 1, SetMin(commas) - 1)>>
             \o SplitCsv(SubSeq(text, SetMin(commas) + 1, Len(text)))

BookingLabels(b) == Range(SplitCsv(b.seat_labels))

SeatsOfShowtime(d, showtime_id) ==
    {i \in 1..Len(d.seat) : d.seat[i].showtime_id = showtime_id}

\* Labels of the seats of a showtime that exist and are not booked.
FreeLabels(d, showtime_id) ==
    {d.seat[i].seat_label :
        i \in {k \in SeatsOfShowtime(d, showtime_id) : ~d.seat[k].is_booked}}

\* Labels a booking record of the showtime names.
SoldLabels(d, showtime_id) ==
    UNION {BookingLabels(d.booking[k]) :
              k \in {n \in 1..Len(d.booking) : d.booking[n].showtime_id = showtime_id}}

TicketPrice(d, showtime_id) ==
    d.showtime[CHOOSE i \in 1..Len(d.showtime) : d.showtime[i].id = showtime_id].ticket_price

UserIds(d) == {d.user[i].id : i \in 1..Len(d.user)}

HasRepeat(seq) == \E i, j \in 1..Len(seq) : i # j /\ seq[i] = seq[j]

EqualIgnoringCase(a, b) == Lower(Strip(a)) = Lower(Strip(b))

\* The form of the /book request of client c that the step serves, when the
\* step is one: an accepted request holds it, a refused one is answered with it.
StepForm(c) ==
    IF req'[c].pc = "checked"
    THEN <<req'[c].showtime_id, req'[c].selected_seats>>
    ELSE response'.form

\* The step is client c's /book request arriving (lines 158-168).
BookRequestStep(c) ==
    /\ req[c].pc = "idle"
    /\ req'[c].pc = "checked" \/ (response'.op = "book" /\ req'[c].pc = "idle")
    /\ BookQuery(c, StepForm(c)[1], StepForm(c)[2])

\* What a refused /book request shows the client.
RefusalStatus(c) ==
    IF session[c] \in UserIds(db) THEN "danger_unavailable" ELSE "login_redirect"

\* The refusal of client c's request: the message, and nothing else changed.
Refused(c) ==
    /\ response'.op = "book"
    /\ response'.status = RefusalStatus(c)
    /\ req' = req
    /\ db' = db

A1 == <<"A", "1">>

A2 == <<"A", "2">>

Z9 == <<"Z", "9">>

SeatByLabel(d, showtime_id, label) ==
    d.seat[CHOOSE i \in SeatsOfShowtime(d, showtime_id) : d.seat[i].seat_label = label]

\* The labels of create_seats_for_showtime's grid.
GridLabels == {SeatLabel(r, c) : r \in 0..(Rows - 1), c \in 1..Cols}

\* The store holds the demo data exactly once.
SeededOnce(d) ==
    /\ Len(d.movie) = Len(DemoMovies)
    /\ \A m \in 1..Len(DemoMovies) :
         Cardinality({i \in 1..Len(d.movie) : d.movie[i].title = DemoMovies[m].title}) = 1
    /\ \A m \in 1..Len(d.movie) :
         Cardinality({i \in 1..Len(d.showtime) :
                         d.showtime[i].movie_id = d.movie[m].id}) = ShowtimesPerMovie
    /\ Len(d.showtime) = Len(d.movie) * ShowtimesPerMovie
    /\ Len(d.seat) = Len(d.showtime) * Rows * Cols
    /\ \A s \in 1..Len(d.showtime) :
         /\ Cardinality(SeatsOfShowtime(d, d.showtime[s].id)) = Rows * Cols
         /\ {d.seat[i].seat_label : i \in SeatsOfShowtime(d, d.showtime[s].id)} = GridLabels
    /\ Cardinality(UserByEmail(d, DemoEmail)) = 1

(***************************************************************************)
(* C1.  Partial failure atomicity: a booking request on an existing        *)
(* showtime that names at least one seat which is booked, or which the     *)
(* showtime does not have, is refused; it changes no seat (the available   *)
(* ones of the request included), creates no booking and is over.          *)
(***************************************************************************)
C1_PartialFailureAtomic ==
    [][\A c \in SeqClients :
         BookRequestStep(c) =>
           LET showtime_id == StepForm(c)[1]
               selected_seats == StepForm(c)[2]
           IN  (/\ ShowtimeById(db, showtime_id) # {}
                /\ \E j \in 1..Len(selected_seats) :
                      selected_seats[j] \notin FreeLabels(db, showtime_id))
               => Refused(c)]_vars

\* With A1 sold and A2 free, the request for A2 together with A1, or with a
\* seat the showtime does not have, was refused.
C1_Witness ==
    /\ response \in {BookReply("danger_unavailable", 1, <<A2, A1>>),
                     BookReply("danger_unavailable", 1, <<A2, Z9>>)}
    /\ SeatByLabel(db, 1, A1).is_booked
    /\ ~SeatByLabel(db, 1, A2).is_booked
    /\ Len(db.booking) = 1

(***************************************************************************)
(* C2.  Double submission: once a booking record of a showtime names a     *)
(* seat, every later booking request naming that seat of that showtime is  *)
(* refused, adds no booking, changes no seat flag and no booking, and the  *)
(* seat stays booked.                                                      *)
(***************************************************************************)
C2_DoubleSubmissionRefused ==
    [][\A c \in SeqClients :
         BookRequestStep(c) =>
           LET showtime_id == StepForm(c)[1]
               selected_seats == StepForm(c)[2]
               again == Range(selected_seats) \cap SoldLabels(db, showtime_id)
           IN  again # {} =>
                 /\ Refused(c)
                 /\ \A label \in again : SeatByLabel(db', showtime_id, label).is_booked]_vars

\* Seat A1 of showtime 1 was sold to the demo user, and the same request,
\* made again by the other user, was refused.
C2_Witness ==
    /\ response = BookReply("danger_unavailable", 1, <<A1>>)
    /\ Len(db.booking) = 1
    /\ db.booking[1].seat_labels = A1
    /\ db.booking[1].showtime_id = 1
    /\ db.booking[1].user_id = 1
    /\ session[1] = 2

(***************************************************************************)
(* C3.  Postcondition of a successful booking: the commit of an accepted   *)
(* request adds exactly one booking, for the requesting user and showtime, *)
(* whose total price is the showtime's ticket price times the number of    *)
(* requested labels; every requested seat of that showtime is booked       *)
(* afterwards and no other seat, of this or of another showtime, changes.  *)
(***************************************************************************)
C3_SuccessPostcondition ==
    [][\A c \in SeqClients :
         BookCommit(c) =>
           LET r == req[c]
               n == Len(db.booking)
               b == db'.booking[n + 1]
           IN  /\ r.selected_seats # <<>>
               /\ Range(r.selected_seats) \subseteq FreeLabels(db, r.showtime_id)
               /\ Len(db'.booking) = n + 1
               /\ SubSeq(db'.booking, 1, n) = db.booking
               /\ b.user_id = session[c]
               /\ b.showtime_id = r.showtime_id
               /\ b.total_price = TicketPrice(db, r.showtime_id) * Len(r.selected_seats)
               /\ SplitCsv(b.seat_labels) = r.selected_seats
               /\ Len(db'.seat) = Len(db.seat)
               /\ \A k \in 1..Len(db.seat) :
                    db'.seat[k] =
                      IF /\ db.seat[k].showtime_id = r.showtime_id
                         /\ db.seat[k].seat_label \in Range(r.selected_seats)
                      THEN [db.seat[k] EXCEPT !.is_booked = TRUE]
                      ELSE db.seat[k]
               /\ db'.movie = db.movie
               /\ db'.showtime = db.showtime
               /\ db'.user = db.user]_vars

\* The scenario of the specification: A1 and A2 of the showtime priced 10
\* booked together for 20, A3 untouched.
C3_Witness ==
    /\ response = BookReply("success", 1, <<A1, A2>>)
    /\ Len(db.booking) = 1
    /\ db.booking[1].showtime_id = 1
    /\ db.booking[1].seat_labels = <<"A", "1", ",", "A", "2">>
    /\ db.booking[1].total_price = 20
    /\ SeatByLabel(db, 1, A1).is_booked
    /\ SeatByLabel(db, 1, A2).is_booked
    /\ ~SeatByLabel(db, 1, <<"A", "3">>).is_booked

(***************************************************************************)
(* C4.  Seat/booking consistency of the committed store, crashes inside a  *)
(* booking request included: a seat is booked exactly when a booking       *)
(* record of its showtime names its label, exactly one record does, and    *)
(* every label a booking names is a seat of the booking's showtime.        *)
(***************************************************************************)
C4_SeatBookingConsistent ==
    /\ \A i \in 1..Len(db.seat) :
         LET naming == {k \in 1..Len(db.booking) :
                          /\ db.booking[k].showtime_id = db.seat[i].showtime_id
                          /\ db.seat[i].seat_label \in BookingLabels(db.booking[k])}
         IN  Cardinality(naming) = IF db.seat[i].is_booked THEN 1 ELSE 0
    /\ \A k \in 1..Len(db.booking) :
         LET labels == SplitCsv(db.booking[k].seat_labels)
         IN  /\ ~HasRepeat(labels)
             /\ \A j \in 1..Len(labels) :
                  \E i \in SeatsOfShowtime(db, db.booking[k].showtime_id) :
                     db.seat[i].seat_label = labels[j] /\ db.seat[i].is_booked

\* A booking request died before its commit, after another one had sold a seat.
C4_Witness ==
    /\ response = BookReply("crash", 1, <<A2>>)
    /\ Len(db.booking) = 1
    /\ db.booking[1].seat_labels = A1
    /\ SeatByLabel(db, 1, A1).is_booked
    /\ ~SeatByLabel(db, 1, A2).is_booked

(***************************************************************************)
(* C5.  Seeding is idempotent: a start of the process after the first      *)
(* changes nothing in the store, seat flags and bookings made in between   *)
(* included, so the store holds each demo movie once, three showtimes per  *)
(* movie, the 5 x 8 grid A1..E8 once per showtime, and one demo user.      *)
(***************************************************************************)
C5_SeedingIdempotent ==
    [][Startup => (db' = db /\ SeededOnce(db'))]_vars

\* The process was started again after a seat had been sold.
C5_Witness ==
    /\ response = Reply("startup", "seeded")
    /\ Len(db.booking) = 1
    /\ SeatByLabel(db, 1, A1).is_booked
    /\ Len(db.user) = 2

(***************************************************************************)
(* C6.  Emails identify accounts case-insensitively: no two users have     *)
(* emails equal up to letter case and surrounding blanks; a registration   *)
(* whose email equals an existing user's in that sense is refused and adds *)
(* no user; a login with the right password succeeds, as that user, for    *)
(* every such spelling of the user's email.                                *)
(***************************************************************************)
C6_EmailsCaseInsensitive ==
    [][/\ \A i, j \in 1..Len(db'.user) :
             i # j => ~EqualIgnoringCase(db'.user[i].email, db'.user[j].email)
       /\ \A c \in SeqClients, i \in RegisterInputs :
             (/\ response'.op = "register"
              /\ i[1] = "POST"
              /\ \E u \in 1..Len(db.user) : EqualIgnoringCase(db.user[u].email, i[3])
              /\ Register(c, i[1], i[2], i[3], i[4]))
             => /\ db' = db
                /\ response'.status \in {"warning_in_use", "warning_required"}
       /\ \A c \in SeqClients, i \in LoginInputs :
             (/\ response'.op = "login"
              /\ i[1] = "POST"
              /\ Login(c, i[1], i[2], i[3]))
             => \A u \in 1..Len(db.user) :
                  (/\ EqualIgnoringCase(db.user[u].email, i[2])
                   /\ CheckPasswordHash(db.user[u].password_hash, i[3]))
                  => /\ response'.status = "success"
                     /\ session'[c] = db.user[u].id]_vars

\* The second account exists under the lower-case address, and its owner is
\* logged in.
C6_Witness ==
    /\ Len(db.user) = 2
    /\ db.user[2].email = <<"b", "@", "x">>
    /\ response = Reply("login", "success")
    /\ session[1] = 2

(***************************************************************************)
(* C7.  Booking requires an authenticated session: a booking request made  *)
(* with no user logged in is redirected to the login page and changes no   *)
(* seat and no booking; a client's session changes only by a successful    *)
(* login (to that user) and by a logout (to none); and the booking a       *)
(* commit records belongs to the user of the client's session.             *)
(***************************************************************************)
C7_BookingNeedsLogin ==
    [][\A c \in SeqClients :
         /\ (BookRequestStep(c) /\ session[c] \notin UserIds(db))
            => /\ response'.status = "login_redirect"
               /\ req' = req
               /\ db' = db
         /\ BookCommit(c)
            => /\ session[c] \in UserIds(db)
               /\ Len(db'.booking) = Len(db.booking) + 1
               /\ db'.booking[Len(db'.booking)].user_id = session[c]
         /\ session'[c] # session[c]
            => \/ /\ response' = Reply("logout", "success")
                  /\ session'[c] = 0
               \/ /\ response' = Reply("login", "success")
                  /\ session'[c] \in UserIds(db)
                  /\ \E i \in LoginInputs :
                        /\ Login(c, i[1], i[2], i[3])
                        /\ EqualIgnoringCase(db.user[CHOOSE u \in LoadUser(db, session'[c]) : TRUE].email, i[2])
         /\ (response' = Reply("logout", "success") /\ Logout(c))
            => session'[c] = 0]_vars

\* After a booking and a logout, a booking request was sent to the login page.
C7_Witness ==
    /\ response.op = "book"
    /\ response.status = "login_redirect"
    /\ session[1] = 0
    /\ Len(db.booking) = 1

(***************************************************************************)
(* C8.  The check-then-act of book_tickets is not protected: a request is  *)
(* accepted on the committed flags alone, whatever another request in      *)
(* flight has marked, and the commit of an accepted request always writes  *)
(* its booking and its seats, also when the seats were sold meanwhile.     *)
(* So two bookings of one showtime can name the same seat.                 *)
(***************************************************************************)
C8_CheckThenActUnprotected ==
    [][\A c \in Clients :
         /\ BookRequestStep(c)
            => LET showtime_id == StepForm(c)[1]
                   selected_seats == StepForm(c)[2]
               IN  (/\ session[c] \in UserIds(db)
                    /\ selected_seats # <<>>
                    /\ ~HasRepeat(selected_seats)
                    /\ Range(selected_seats) \subseteq FreeLabels(db, showtime_id))
                   => req'[c].pc = "checked"
         /\ (req[c].pc = "added" /\ req'[c].pc = "idle" /\ response'.status # "crash")
            => /\ response'.status = "success"
               /\ Len(db'.booking) = Len(db.booking) + 1
               /\ db'.booking[Len(db'.booking)].seat_labels = Join(<<",">>, req[c].selected_seats)
               /\ \A label \in Range(req[c].selected_seats) :
                    SeatByLabel(db', req[c].showtime_id, label).is_booked]_vars

\* Two booking records of showtime 1 name seat A1.
C8_Witness ==
    \E i, j \in 1..Len(db.booking) :
       /\ i # j
       /\ db.booking[i].showtime_id = db.booking[j].showtime_id
       /\ A1 \in BookingLabels(db.booking[i]) \cap BookingLabels(db.booking[j])

(***************************************************************************)
(* C9.  Monotonicity under web requests: by any step other than the        *)
(* init-db command, a booked seat stays booked, the seats of the store     *)
(* (ids, showtimes, labels) stay the same, and the bookings made stay as   *)
(* they are: the booking table only grows at its end.                      *)
(***************************************************************************)
C9_MonotoneUnderRequests ==
    [][~InitDb =>
         /\ Len(db'.seat) = Len(db.seat)
         /\ \/ db'.seat = db.seat
            \/ \A i \in 1..Len(db.seat) :
                  /\ db'.seat[i].id = db.seat[i].id
                  /\ db'.seat[i].showtime_id = db.seat[i].showtime_id
                  /\ db'.seat[i].seat_label = db.seat[i].seat_label
                  /\ db.seat[i].is_booked => db'.seat[i].is_booked
         /\ Len(db'.booking) >= Len(db.booking)
         /\ SubSeq(db'.booking, 1, Len(db.booking)) = db.booking]_vars

\* Two bookings were made one after the other, the first of them of seat A1.
C9_Witness ==
    /\ Len(db.booking) = 2
    /\ db.booking[1].seat_labels = A1
    /\ db.booking[2].seat_labels = A2
    /\ SeatByLabel(db, 1, A1).is_booked
    /\ SeatByLabel(db, 1, A2).is_booked
    /\ response = Reply("home", "ok")

(***************************************************************************)
(* C10.  Duplicate labels in one request: a booking request whose list     *)
(* repeats a label is refused by the count comparison, with no seat and no *)
(* booking changed; so no booking ever lists a label twice or charges more *)
(* than the price times its distinct seats.                                *)
(***************************************************************************)
C10_DuplicateLabelsRefused ==
    [][/\ \A c \in SeqClients :
            (/\ BookRequestStep(c)
             /\ ShowtimeById(db, StepForm(c)[1]) # {}
             /\ HasRepeat(StepForm(c)[2]))
            => Refused(c)
       /\ \A k \in 1..Len(db'.booking) :
            LET labels == SplitCsv(db'.booking[k].seat_labels)
            IN  /\ ~HasRepeat(labels)
                /\ db'.booking[k].total_price =
                     TicketPrice(db', db'.booking[k].showtime_id) * Cardinality(Range(labels))]_vars

\* The request for A1 twice was refused while every seat was free.
C10_Witness ==
    /\ response = BookReply("danger_unavailable", 1, <<A1, A1>>)
    /\ db.booking = <<>>
    /\ ~SeatByLabel(db, 1, A1).is_booked

====
